---- MODULE Spec2Model ----
(***************************************************************************)
(* simulate_control of code_implementation_5_3.py: a go-to-goal law, a     *)
(* one-constraint QP safety filter, the velocity rescaling and the Euler   *)
(* update of a single-integrator robot, with the history arrays it fills.  *)
(*                                                                         *)
(* float64 values are modelled in fixed point: the integer n stands for    *)
(* the real n / Scale.  The three IEEE special values the code can produce *)
(* (a division by zero in the rescaling step) are kept as three reserved   *)
(* integers, and the F* operators follow the IEEE rules for them.          *)
(***************************************************************************)
EXTENDS Integers, Sequences, FiniteSets, TLC

(* ------------------------------------------------------------------ *)
(* float64 as fixed point                                              *)
(* ------------------------------------------------------------------ *)
Limb == 10^3
Scale == Limb * Limb

PInf == (2^30 - 1) + 2^30
NInf == -PInf
NaN == NInf - 1

IsNaN(a) == a = NaN
IsInf(a) == a = PInf \/ a = NInf
IsFinite(a) == ~IsNaN(a) /\ ~IsInf(a)

Abs(a) == IF a >= 0 THEN a ELSE -a
Sgn(a) == IF a > 0 THEN 1 ELSE IF a < 0 THEN -1 ELSE 0

\* The arithmetic is written as functions: a function is applied to the values
\* of its arguments.

\* |a| * |b| / Scale, rounded to nearest, without leaving 32 bits
MulAbs[a \in Nat, b \in Nat] ==
  LET ah == a \div Limb
      al == a % Limb
      bh == b \div Limb
      bl == b % Limb
      mid == ah * bl + al * bh
      low == al * bl + Scale \div 2
  IN  ah * bh + (mid + low \div Limb) \div Limb

\* long division, one decimal digit of the quotient per step
DivDigits[q \in Nat, r \in Nat, b \in Nat, n \in Nat] ==
  IF n = 0 THEN q
  ELSE DivDigits[q * 10 + (r * 10) \div b, (r * 10) % b, b, n - 1]

\* |a| * Scale / |b|, truncated
DivAbs[a \in Nat, b \in Nat] == DivDigits[a \div b, a % b, b, 6]

\* Newton's iteration from above, down to the fixed point
SqrtIter[x \in Nat, y \in Nat] ==
  LET y2 == (y + DivAbs[x, y]) \div 2
  IN  IF y2 >= y THEN y ELSE SqrtIter[x, y2]

SqrtAbs[x \in Nat] ==
  IF x = 0 THEN 0 ELSE SqrtIter[x, IF x > Scale THEN x ELSE Scale]

\* exp(-1)
ExpMinusOne == 367879

\* exp(-f) for 0 <= f < 1: the alternating Taylor series, term after term
ExpSeries[f \in Nat, term \in Nat, acc \in Nat, i \in Nat] ==
  IF i > 12 THEN acc
  ELSE LET t == MulAbs[term, f] \div i
       IN  ExpSeries[f, t, IF i % 2 = 1 THEN acc - t ELSE acc + t, i + 1]

ExpScale[r \in Nat, n \in Nat] ==
  IF n = 0 \/ r = 0 THEN r ELSE ExpScale[MulAbs[r, ExpMinusOne], n - 1]

\* exp(-x) for x >= 0
ExpNeg[x \in Nat] == ExpScale[ExpSeries[x % Scale, Scale, Scale, 1], x \div Scale]

FNeg[a \in Int] == IF IsNaN(a) THEN NaN ELSE -a

FAdd[a \in Int, b \in Int] ==
  IF IsNaN(a) \/ IsNaN(b) THEN NaN
  ELSE IF IsInf(a) /\ IsInf(b) THEN (IF a = b THEN a ELSE NaN)
  ELSE IF IsInf(a) THEN a
  ELSE IF IsInf(b) THEN b
  ELSE a + b

FSub[a \in Int, b \in Int] == FAdd[a, FNeg[b]]

FMul[a \in Int, b \in Int] ==
  IF IsNaN(a) \/ IsNaN(b) THEN NaN
  ELSE IF IsInf(a) \/ IsInf(b)
       THEN (IF a = 0 \/ b = 0 THEN NaN
             ELSE IF Sgn(a) * Sgn(b) > 0 THEN PInf ELSE NInf)
  ELSE Sgn(a) * Sgn(b) * MulAbs[Abs(a), Abs(b)]

FDiv[a \in Int, b \in Int] ==
  IF IsNaN(a) \/ IsNaN(b) THEN NaN
  ELSE IF IsInf(a) THEN (IF IsInf(b) THEN NaN
                         ELSE IF Sgn(a) * Sgn(b) >= 0 THEN PInf ELSE NInf)
  ELSE IF IsInf(b) THEN 0
  ELSE IF b = 0 THEN (IF a = 0 THEN NaN ELSE IF a > 0 THEN PInf ELSE NInf)
  ELSE Sgn(a) * Sgn(b) * DivAbs[Abs(a), Abs(b)]

FSqrt[a \in Int] ==
  IF IsNaN(a) \/ a < 0 THEN NaN
  ELSE IF a = PInf THEN PInf
  ELSE SqrtAbs[a]

FExpNeg[a \in Int] ==
  IF IsNaN(a) THEN NaN
  ELSE IF a = PInf THEN 0
  ELSE ExpNeg[a]

\* every comparison with a NaN is false
FGe(a, b) == ~IsNaN(a) /\ ~IsNaN(b) /\ a >= b
FLe(a, b) == ~IsNaN(a) /\ ~IsNaN(b) /\ a <= b
FLt(a, b) == ~IsNaN(a) /\ ~IsNaN(b) /\ a < b

\* np.min: a NaN propagates
FMin[a \in Int, b \in Int] ==
  IF IsNaN(a) \/ IsNaN(b) THEN NaN ELSE IF a <= b THEN a ELSE b

\* the integer k as a float
FInt(k) == k * Scale

\* the one element of a one-element set: { e : x \in {d} } is e with x
\* standing for the value of d
The(S) == CHOOSE x \in S : TRUE

(* ------------------------------------------------------------------ *)
(* constants and settings                                              *)
(* ------------------------------------------------------------------ *)
pi == 3141593
Ts == Scale \div 100
t_max == 3 * pi

obstacle_state == <<0, 0, Scale \div 2>>

v_trans_max == Scale \div 2
robot_radius == 21 * (Scale \div 100)
d_safe == obstacle_state[3] + robot_radius + Scale \div 1000

beta == 5
gamma == 10

\* round(t_max / Ts)
sim_iter == (DivAbs[t_max, Ts] + Scale \div 2) \div Scale

\* the literal 0.005 of the stop test
goal_tolerance == Scale \div 200

\* a pose or a goal: px, py, theta in units of 1/1000
Pose(x, y, th) == <<x * Limb, y * Limb, th * Limb>>

BaseInit == Pose(-2000, -500, 0)
BaseGoal == Pose(2000, 1000, 0)

\* how many half turns away from 0 an initial heading is taken
MaxHalfTurns == 3

\* the runs explored: the script's own configuration first, then other
\* settings of init_state and desired_state
Scenarios ==
  { <<BaseInit, BaseGoal>>,
    <<<<-2 * Scale, 3 * (Scale \div 2), pi>>, Pose(2000, -1000, 0)>>,
    <<<<-2 * Scale, 0, -pi>>, Pose(2000, 0, 0)>>,
    <<Pose(2001, 1000, 7000), Pose(2000, 1000, 0)>>,
    <<<<4 * (Scale \div 10), -9 * (Scale \div 10), 3 * pi>>, Pose(-400, 1200, 0)>>,
    <<Pose(-2000, -500, -10000), Pose(2500, 1900, 0)>> }
  \cup { <<<<3 * (Scale \div 2), Scale \div 2, k * pi>>, Pose(2000, 1000, 0)>>
         : k \in (-MaxHalfTurns) .. MaxHalfTurns }

VARIABLES init_state, desired_state, robot_state, current_input, it, pc,
          state_history, goal_history, input_history, h_history

vars == <<init_state, desired_state, robot_state, current_input, it, pc,
          state_history, goal_history, input_history, h_history>>

(* ------------------------------------------------------------------ *)
(* the history arrays                                                  *)
(* ------------------------------------------------------------------ *)
\* np.zeros((sim_iter, n)): a history array is kept as the sequence of its rows
\* up to the last one assigned; every row after it is still the zero row
\* (error_history is assigned but neither read nor returned, and is left out)
ZeroRow(n) == [j \in 1 .. n |-> 0]

\* hist[i], rows counted from 0
Row(hist, i, n) == IF i < Len(hist) THEN hist[i + 1] ELSE ZeroRow(n)

\* hist[i] = row
SetRow(hist, i, row, n) ==
  IF i < Len(hist) THEN [hist EXCEPT ![i + 1] = row]
  ELSE hist \o [j \in 1 .. (i - Len(hist)) |-> ZeroRow(n)] \o <<row>>

(* ------------------------------------------------------------------ *)
(* the controller, step by step                                        *)
(* ------------------------------------------------------------------ *)
\* the wrap with its final shift forgotten
WrapAngleNoShift(th) ==
  IF IsFinite(th) THEN (th + pi) % (2 * pi) ELSE NaN

\* ((theta + pi) % (2 * pi)) - pi
WrapAngle(th) ==
  IF IsFinite(th) THEN ((th + pi) % (2 * pi)) - pi ELSE NaN

\* error = desired_state - robot_state, its angle wrapped
Error(desired, robot) ==
  <<FSub[desired[1], robot[1]],
    FSub[desired[2], robot[2]],
    WrapAngle(FSub[desired[3], robot[3]])>>

\* np.linalg.norm(error[:2])
ErrorNorm(error) ==
  FSqrt[FAdd[FMul[error[1], error[1]], FMul[error[2], error[2]]]]

\* K_g = v_trans_max * (1 - exp(-beta * error_norm)) / (error_norm + 1E-10);
\* 1E-10 is below the resolution and adds nothing
GoalGain(error_norm) ==
  The({ FDiv[FMul[v_trans_max, FSub[FInt(1), FExpNeg[FMul[FInt(beta), r]]]], r]
        : r \in {error_norm} })

\* u_gtg = K_g * error
GoToGoal(error) ==
  The({ <<FMul[K_g, error[1]], FMul[K_g, error[2]], FMul[K_g, error[3]]>>
        : K_g \in {GoalGain(ErrorNorm(error))} })

\* the stop test: error_norm >= 0.005 keeps the loop going
KeepGoing(desired, robot) ==
  FGe(ErrorNorm(Error(desired, robot)), goal_tolerance)

\* vector_to_obstacle = robot_state[:2] - obstacle_state[:2]
VectorToObstacle(robot) ==
  <<FSub[robot[1], obstacle_state[1]], FSub[robot[2], obstacle_state[2]]>>

\* H = -2 * vector_to_obstacle
ConstraintH(robot) ==
  LET v == VectorToObstacle(robot)
  IN  <<FMul[FInt(-2), v[1]], FMul[FInt(-2), v[2]]>>

\* np.sum(vector_to_obstacle**2) - d_safe**2
Barrier(robot) ==
  LET v == VectorToObstacle(robot)
  IN  FSub[FAdd[FMul[v[1], v[1]], FMul[v[2], v[2]]], FMul[d_safe, d_safe]]

\* b = gamma * (np.sum(vector_to_obstacle**2) - d_safe**2)
ConstraintB(robot) == FMul[FInt(gamma), Barrier(robot)]

Dot(a, b) == FAdd[FMul[a[1], b[1]], FMul[a[2], b[2]]]

\* the solver called without its constraint
QPSolveNoConstraint(q, c, H, b) ==
  <<FDiv[FNeg[c[1]], q], FDiv[FNeg[c[2]], q]>>

\* cvxopt.solvers.qp(Q, c, H, b) for Q = q * I and one constraint row:
\* the minimiser of x'Qx/2 + c'x, moved onto H x = b when it violates H x <= b
QPSolve(q, c, H, b) ==
  The({ The({ IF FLe(excess, 0) THEN x0
              ELSE The({ <<FSub[x0[1], FMul[lambda, H[1]]],
                           FSub[x0[2], FMul[lambda, H[2]]]>>
                         : lambda \in {FDiv[excess, Dot(H, H)]} })
              : excess \in {FSub[Dot(H, x0), b]} })
        : x0 \in {<<FDiv[FNeg[c[1]], q], FDiv[FNeg[c[2]], q]>>} })

\* Q_mat = 2 * eye(2), c_mat = -2 * u_gtg[:2]; current_input = [x0, x1, 0]
SafeInput(desired, robot) ==
  The({ The({ <<x[1], x[2], 0>>
              : x \in {QPSolve(FInt(2),
                               <<FMul[FInt(-2), u_gtg[1]], FMul[FInt(-2), u_gtg[2]]>>,
                               ConstraintH(robot), ConstraintB(robot))} })
        : u_gtg \in {GoToGoal(Error(desired, robot))} })

\* the ratio taken against the angular component alone
VRatioOmegaOnly(u) == FDiv[u[1], u[3]]

\* v_ratio = current_input[0] / (current_input[2] + current_input[1])
VRatio(u) == FDiv[u[1], FAdd[u[3], u[2]]]

\* "Adjust input based on robot's physical limitation"
Limiter(u) ==
  The({ The({ <<FMul[v_ratio, vy], vy, FMin[u[3], FMul[FInt(5), Ts]]>>
              : vy \in {FDiv[Scale \div 2,
                             FSqrt[FAdd[FInt(1), FMul[v_ratio, v_ratio]]]]} })
        : v_ratio \in {VRatio(u)} })

\* robot_state + Ts * current_input, then the angle wrapped
Integrate(robot, u) ==
  <<FAdd[robot[1], FMul[Ts, u[1]]],
    FAdd[robot[2], FMul[Ts, u[2]]],
    WrapAngle(FAdd[robot[3], FMul[Ts, u[3]]])>>

(* ------------------------------------------------------------------ *)
(* the loop                                                            *)
(* ------------------------------------------------------------------ *)
Init ==
  /\ \E sc \in Scenarios : init_state = sc[1] /\ desired_state = sc[2]
  /\ robot_state = init_state
  /\ current_input = <<0, 0, 0>>
  /\ it = 0
  /\ pc = "RUNNING"
  /\ state_history = <<>>
  /\ goal_history = <<>>
  /\ input_history = <<>>
  /\ h_history = <<>>

\* one pass of the loop body that does not break
Tick ==
  /\ pc = "RUNNING"
  /\ it < sim_iter
  /\ KeepGoing(desired_state, robot_state)
  /\ state_history' = SetRow(state_history, it, robot_state, 3)
  /\ goal_history' = SetRow(goal_history, it, desired_state, 3)
  /\ \E u \in {Limiter(SafeInput(desired_state, robot_state))} :
        /\ current_input' = u
        /\ input_history' = SetRow(input_history, it, u, 3)
        /\ robot_state' = Integrate(robot_state, u)
  /\ h_history' = SetRow(h_history, it, ConstraintH(robot_state), 2)
  /\ it' = it + 1
  /\ UNCHANGED <<init_state, desired_state, pc>>

\* the break taken before anything is recorded
GoalBreakNoRecord ==
  /\ pc = "RUNNING"
  /\ it < sim_iter
  /\ ~KeepGoing(desired_state, robot_state)
  /\ pc' = "GOAL_REACHED"
  /\ UNCHANGED <<init_state, desired_state, robot_state, current_input, it,
                 state_history, goal_history, input_history, h_history>>

\* the pass that takes the break
GoalBreak ==
  /\ pc = "RUNNING"
  /\ it < sim_iter
  /\ ~KeepGoing(desired_state, robot_state)
  /\ state_history' = SetRow(state_history, it, robot_state, 3)
  /\ goal_history' = SetRow(goal_history, it, desired_state, 3)
  /\ pc' = "GOAL_REACHED"
  /\ UNCHANGED <<init_state, desired_state, robot_state, current_input, it,
                 input_history, h_history>>

\* range(sim_iter) is exhausted
LoopExit ==
  /\ pc = "RUNNING"
  /\ it = sim_iter
  /\ pc' = "ITERATION_LIMIT_REACHED"
  /\ UNCHANGED <<init_state, desired_state, robot_state, current_input, it,
                 state_history, goal_history, input_history, h_history>>

Next == Tick \/ GoalBreak \/ LoopExit

Spec == Init /\ [][Next]_vars

\* the loop is a plain sequential loop: it always takes its next step
FairSpec == Spec /\ WF_vars(Next)

(* ------------------------------------------------------------------ *)
(* the properties                                                      *)
(* ------------------------------------------------------------------ *)
\* the script's own configuration
IsBase == init_state = BaseInit /\ desired_state = BaseGoal

\* the position the last completed pass started from, and what it applied
PrevState == Row(state_history, it - 1, 3)
Stepped == it > 0 /\ Len(input_history) = it

\* the rounding allowed when two computed quantities are compared
Tolerance == Scale \div 10000

\* the break was taken with the position error below the tolerance
BelowTolerance ==
  FLt(ErrorNorm(Error(desired_state, robot_state)), goal_tolerance)

\* C1: in the script's own configuration every position the robot holds has
\* h(p) = |p - o|^2 - d_safe^2 >= 0.
C1_BaseRunStaysSafe == IsBase => FGe(Barrier(robot_state), 0)

\* C1 witness: the base run is sliding along the safety boundary
C1_Witness ==
  /\ IsBase
  /\ Stepped
  /\ FLt(Barrier(robot_state), Scale \div 1000)
  /\ FGe(Barrier(robot_state), 0)

\* C2: the base run comes to a pass that finds the position error below 0.005,
\* stops there at a tick index below sim_iter, and never exhausts the loop.
C2_BaseRunReachesGoal ==
  /\ IsBase ~> (pc = "GOAL_REACHED" /\ BelowTolerance /\ it < sim_iter)
  /\ [](IsBase => pc # "ITERATION_LIMIT_REACHED")

\* C2 witness: the base run has stopped at the goal
C2_Witness == IsBase /\ pc = "GOAL_REACHED" /\ BelowTolerance /\ it < sim_iter

\* C3: a pass started at a position with h >= 0 ends at a position with
\* h(p') >= -gamma * Ts * h(p) (stated for passes that end at a finite position).
C3_DiscreteCBFStep ==
  (Stepped /\ pc = "RUNNING" /\ IsFinite(robot_state[1]) /\ IsFinite(robot_state[2])
     /\ FGe(Barrier(PrevState), 0))
  => FGe(Barrier(robot_state),
         FNeg[FMul[FMul[FInt(gamma), Ts], Barrier(PrevState)]])

\* C4: when the rescaling changes the filtered velocity, the result keeps the
\* sign of both components (stated for passes with a finite result).
C4_DirectionKept ==
  (Stepped /\ IsFinite(current_input[1]) /\ IsFinite(current_input[2]))
  => LET v == SafeInput(desired_state, PrevState)
     IN  (v[1] # current_input[1] \/ v[2] # current_input[2])
         => /\ Sgn(current_input[1]) = Sgn(v[1])
            /\ Sgn(current_input[2]) = Sgn(v[2])

\* C5: the rescaled velocity is a number and vx^2 + vy^2 <= 0.5^2, for every
\* filtered velocity.
C5_SpeedBounded ==
  Stepped
  => /\ IsFinite(current_input[1])
     /\ IsFinite(current_input[2])
     /\ FLe(Dot(current_input, current_input),
            FMul[v_trans_max, v_trans_max] + Tolerance)

\* C6 as stated: after every update the heading lies in (-pi, pi].
C6_HalfOpenInterval == it > 0 => (robot_state[3] > -pi /\ robot_state[3] <= pi)

\* C6 as amended: after every update the heading lies in [-pi, pi], and a
\* heading of exactly +pi or -pi comes out of its first update as -pi.
C6_ClosedInterval ==
  it > 0
  => /\ robot_state[3] >= -pi
     /\ robot_state[3] <= pi
     /\ (it = 1 /\ init_state[3] \in {pi, -pi}) => robot_state[3] = -pi

\* C6 witness: a heading of exactly +pi has gone through an update, and is -pi
C6_Witness == it > 0 /\ init_state[3] = pi /\ robot_state[3] = -pi

\* C7: at most sim_iter passes run; the loop ends by the break exactly when a
\* pass found the position error below 0.005, at the first such pass, and by
\* exhaustion when no pass did.
C7_TerminalStates ==
  /\ it <= sim_iter
  /\ pc = "GOAL_REACHED"
     => /\ BelowTolerance
        /\ \A t \in 0 .. (it - 1) :
             ~FLt(ErrorNorm(Error(desired_state, Row(state_history, t, 3))),
                  goal_tolerance)
  /\ pc = "ITERATION_LIMIT_REACHED"
     => /\ it = sim_iter
        /\ \A t \in 0 .. (it - 1) :
             ~FLt(ErrorNorm(Error(desired_state, Row(state_history, t, 3))),
                  goal_tolerance)

\* C8: the velocity a pass applies satisfies that pass's constraint H v <= b
\* (stated for passes with a finite result).
C8_AppliedInputSatisfiesConstraint ==
  (Stepped /\ IsFinite(current_input[1]) /\ IsFinite(current_input[2]))
  => FLe(Dot(ConstraintH(PrevState), current_input),
         ConstraintB(PrevState) + Tolerance)

\* C9 as stated: the pass that breaks records nothing, so all four arrays hold
\* rows 0 .. it-1 and no more.
C9_NothingRecordedAtBreak ==
  pc = "GOAL_REACHED"
  => /\ Len(state_history) = it
     /\ Len(goal_history) = it
     /\ Len(input_history) = it
     /\ Len(h_history) = it

\* C9 as amended: the pass that breaks has recorded the state and the goal at
\* its index, and neither the input nor the constraint row.
C9_StateAndGoalRecordedAtBreak ==
  pc = "GOAL_REACHED"
  => /\ Len(state_history) = it + 1
     /\ Row(state_history, it, 3) = robot_state
     /\ Len(goal_history) = it + 1
     /\ Row(goal_history, it, 3) = desired_state
     /\ Len(input_history) = it
     /\ Len(h_history) = it

\* C9 witness: the loop has stopped at the goal after some passes
C9_Witness == pc = "GOAL_REACHED" /\ BelowTolerance /\ it > 0

\* C10: the row written to h_history at a tick is the barrier value h(p) of the
\* position at that tick, in both components.
C10_MarginIsBarrier ==
  \A t \in 0 .. (Len(h_history) - 1) :
    Row(h_history, t, 2)
      = <<Barrier(Row(state_history, t, 3)), Barrier(Row(state_history, t, 3))>>

====
